---- MODULE Spec2Model ----
(***************************************************************************)
(* Model of swagger-tools:                                                 *)
(*   - middleware/2.0/swagger-metadata.js: the route table built by        *)
(*     swaggerMetadataMiddleware and the per-request handler               *)
(*     swaggerMetadata (route matching and parameter resolution);          *)
(*   - bin/swagger-tools: the document loader getDocument/getDocuments.    *)
(*                                                                         *)
(* JavaScript values are represented as follows.  A string-valued slot     *)
(* that is undefined holds Undefined; an object-valued slot that is        *)
(* undefined holds UndefinedObject.  A path is the sequence of its         *)
(* segments (/pets/42 is <<"pets", "42">>); all segments of the model are  *)
(* non-empty, lower-case and free of "/".  An object used as a mapping is  *)
(* a function from its keys.  An array indexed from 0 is a sequence, read  *)
(* with At.                                                                *)
(***************************************************************************)
EXTENDS Integers, Sequences, FiniteSets, TLC

VARIABLES
    swaggerObject,  \* the API description handed to swaggerMetadataMiddleware
    paths,          \* the route table (closure variable `paths`), insertion-ordered
    built,          \* TRUE once swaggerMetadataMiddleware has returned the handler
    req,            \* the request last handled, as the handler leaves it
    metadata,       \* the handler's local `metadata` when it returned
    nextCalls,      \* the arguments of the calls of `next` made for that request
    pathsAndOrUrls, \* CLI: the arguments given to getDocuments
    fetched,        \* CLI: per argument, has getDocument been started
    callbacks,      \* CLI: per argument, the calls of getDocument's callback
    mapState,       \* CLI: async.map's bookkeeping (results, completed, live)
    process,        \* CLI: "running", "crashed" (uncaught exception) or "exited"
    reported        \* CLI: the calls of getDocuments' callback

vars == <<swaggerObject, paths, built, req, metadata, nextCalls,
          pathsAndOrUrls, fetched, callbacks, mapState, process, reported>>

mwVars == <<swaggerObject, paths, built, req, metadata, nextCalls>>
cliVars == <<pathsAndOrUrls, fetched, callbacks, mapState, process, reported>>

-----------------------------------------------------------------------------
(* Bounds of the model *)

\* the most path templates one API description declares
MaxPaths == 2
\* the most parameter declarations of one route (path level plus operation level)
MaxParams == 2
\* the most documents one invocation of the command line loads
MaxDocs == 2

-----------------------------------------------------------------------------
(* JavaScript values *)

Undefined == "undefined"
UndefinedObject == [undefined |-> TRUE]
Null == <<>>
NoArgument == "(no argument)"

Range(s) == {s[i] : i \in 1..Len(s)}

\* arr[i] of a JavaScript array: undefined outside the array
At(arr, i) == IF i + 1 \in 1..Len(arr) THEN arr[i + 1] ELSE Undefined

\* obj[key] of a JavaScript object used as a mapping
Get(obj, key) == IF key \in DOMAIN obj THEN obj[key] ELSE Undefined

ToLowerCase(s) ==
    CASE s = "GET" -> "get"
      [] s = "Post" -> "post"
      [] OTHER -> s

-----------------------------------------------------------------------------
(* Route table: swaggerMetadataMiddleware *)

\* a literal segment and a {name} placeholder of a Swagger path template
Lit(s) == [kind |-> "literal", text |-> s]
Brace(n) == [kind |-> "brace", text |-> n]

\* the segments of the path templates of the model
TemplateSegments(pathName) ==
    CASE pathName = "/pets/{petId}" -> <<Lit("pets"), Brace("petId")>>
      [] pathName = "/pets/{id}" -> <<Lit("pets"), Brace("id")>>
      [] pathName = "/pets/mine" -> <<Lit("pets"), Lit("mine")>>
      [] pathName = "/{kind}/{id}" -> <<Brace("kind"), Brace("id")>>

\* helpers.expressStylePath: the base path followed by the template, every
\* {name} rewritten to Express' :name
expressStylePath(basePath, pathName) ==
    LET full == [i \in 1..Len(basePath) |-> Lit(basePath[i])]
                \o TemplateSegments(pathName)
    IN  [i \in 1..Len(full) |->
            IF full[i].kind = "brace"
            THEN [kind |-> "colon", text |-> full[i].text]
            ELSE full[i]]

\* pathToRegexp(path, keys): the pattern holds one capture group ([^\/]+?) per
\* :name and no trace of the name; keys receives the names in order
CaptureGroup == "([^/]+?)"

RECURSIVE KeysOf(_)
KeysOf(express) ==
    IF express = <<>> THEN <<>>
    ELSE IF express[1].kind = "colon"
         THEN <<[name |-> express[1].text]>> \o KeysOf(Tail(express))
         ELSE KeysOf(Tail(express))

pathToRegexp(express) ==
    [re |-> [source |-> [i \in 1..Len(express) |->
                            IF express[i].kind = "colon"
                            THEN CaptureGroup ELSE express[i].text],
             flags |-> "i",
             lastIndex |-> 0],
     keys |-> KeysOf(express)]

\* re.toString()
ReToString(re) == <<re.source, re.flags>>

Methods == <<"get", "put", "post", "delete", "options", "head", "patch">>

\* path[method] of a path item
PathItemGet(path, method) ==
    IF method \in DOMAIN path.ops THEN path.ops[method] ELSE UndefinedObject

\* the operations object filled by the loop over the seven methods
OperationsOf(path) ==
    LET declared == {m \in Range(Methods) : PathItemGet(path, m) # UndefinedObject}
    IN  [m \in declared |-> PathItemGet(path, m)]

RouteEntry(so, path) ==
    LET compiled == pathToRegexp(expressStylePath(so.basePath, path.pathName))
    IN  [path |-> path,
         keys |-> compiled.keys,
         re |-> compiled.re,
         operations |-> OperationsOf(path)]

\* paths[reStr] = entry on an insertion-ordered object: an existing key keeps
\* its position and gets the new value, a new key goes last
SetProperty(table, key, value) ==
    IF \E i \in 1..Len(table) : table[i].key = key
    THEN [i \in 1..Len(table) |->
            IF table[i].key = key THEN [key |-> key, value |-> value] ELSE table[i]]
    ELSE Append(table, [key |-> key, value |-> value])

RECURSIVE GatherPaths(_, _, _)
GatherPaths(so, n, table) ==
    IF n > Len(so.paths) THEN table
    ELSE LET entry == RouteEntry(so, so.paths[n])
         IN  GatherPaths(so, n + 1, SetProperty(table, ReToString(entry.re), entry))

-----------------------------------------------------------------------------
(* Request handling: swaggerMetadata *)

\* does the anchored pattern match the whole path
Matches(source, rPath) ==
    /\ Len(source) = Len(rPath)
    /\ \A i \in 1..Len(source) :
          source[i] = CaptureGroup \/ source[i] = rPath[i]

Captures(source, rPath) ==
    LET idx == {i \in 1..Len(source) : source[i] = CaptureGroup}
        RECURSIVE Collect(_)
        Collect(i) ==
            IF i > Len(source) THEN <<>>
            ELSE IF i \in idx THEN <<rPath[i]>> \o Collect(i + 1)
                 ELSE Collect(i + 1)
    IN  Collect(1)

\* re.exec(rPath): the match array (null when there is none) and the
\* lastIndex the call leaves in re; a pattern without the g flag is always
\* applied from the start and its lastIndex is left alone
ReExecGlobal(re, rPath) ==
    IF re.lastIndex = 0 /\ Matches(re.source, rPath)
    THEN [match |-> <<rPath>> \o Captures(re.source, rPath), lastIndex |-> Len(rPath)]
    ELSE [match |-> Null, lastIndex |-> 0]

ReExec(re, rPath) ==
    IF Matches(re.source, rPath)
    THEN [match |-> <<rPath>> \o Captures(re.source, rPath), lastIndex |-> re.lastIndex]
    ELSE [match |-> Null, lastIndex |-> re.lastIndex]

\* _.find(paths, ...): the entries are tried in the table's order until one
\* matches; `match` is left holding the last exec's result.  The result
\* carries the index of the entry found (0 when none), `match`, and the table
\* with every lastIndex the calls of exec left behind.
RECURSIVE Find(_, _, _)
Find(table, i, rPath) ==
    IF i > Len(table) THEN [index |-> 0, match |-> Null, table |-> table]
    ELSE LET r == ReExec(table[i].value.re, rPath)
             after == [table EXCEPT ![i].value.re.lastIndex = r.lastIndex]
         IN  IF r.match # Null
             THEN [index |-> i, match |-> r.match, table |-> after]
             ELSE Find(after, i + 1, rPath)

\* obj[key] where the values are objects
GetObject(obj, key) == IF key \in DOMAIN obj THEN obj[key] ELSE UndefinedObject

EmptyObject == <<>>

\* references: metadata.swaggerObject refers to the description the
\* middleware was built with, req.swagger to the handler's metadata object
SwaggerObjectRef == [ref |-> "swaggerObject"]
MetadataRef == [ref |-> "metadata"]

\* _.union(a, b): the distinct objects of a then b, the first occurrence kept
RECURSIVE Uniq(_, _)
Uniq(list, seen) ==
    IF list = <<>> THEN <<>>
    ELSE IF list[1] \in seen THEN Uniq(Tail(list), seen)
         ELSE <<list[1]>> \o Uniq(Tail(list), seen \cup {list[1]})

Union(a, b) == Uniq(a \o b, {})

\* var paramType = param.in || 'query'
ParamTypeHeader(param) == IF param.in = Undefined THEN "header" ELSE param.in

ParamType(param) == IF param.in = Undefined THEN "query" ELSE param.in

\* case 'path': every key named param.name assigns val = match[index + 1]
\* (index counts from 0), so the last such key decides
PathValueShifted(keys, match, name) ==
    LET hits == {i \in 1..Len(keys) : keys[i].name = name}
        last == CHOOSE i \in hits : \A j \in hits : j <= i
    IN  IF hits = {} THEN Undefined ELSE At(match, (last - 1) + 2)

PathValue(keys, match, name) ==
    LET hits == {i \in 1..Len(keys) : keys[i].name = name}
        last == CHOOSE i \in hits : \A j \in hits : j <= i
    IN  IF hits = {} THEN Undefined ELSE At(match, (last - 1) + 1)

BodyRequired == "Server configuration error: req.body is not defined but is required"
QueryRequired == "Server configuration error: req.query is not defined but is required"

\* the switch over paramType: the value found, or the error thrown
Found(val) == [threw |-> FALSE, message |-> Undefined, val |-> val]
Thrown(message) == [threw |-> TRUE, message |-> message, val |-> Undefined]

SwitchParamType(param, reqIn, route, match) ==
    LET paramType == ParamType(param)
    IN  CASE paramType \in {"body", "formData"} ->
               IF reqIn.body = UndefinedObject THEN Thrown(BodyRequired)
               ELSE Found(Get(reqIn.body, param.name))
          [] paramType = "header" -> Found(Get(reqIn.headers, param.name))
          [] paramType = "path" -> Found(PathValue(route.keys, match, param.name))
          [] paramType = "query" ->
               IF reqIn.query = UndefinedObject THEN Thrown(QueryRequired)
               ELSE Found(Get(reqIn.query, param.name))
          [] OTHER -> Found(Undefined)

\* Use the default value when necessary
UseDefaultAlways(val, param) ==
    IF param.schema # UndefinedObject /\ param.schema.default # Undefined
    THEN param.schema.default
    ELSE val

UseDefault(val, param) ==
    IF val = Undefined /\ param.schema # UndefinedObject /\ param.schema.default # Undefined
    THEN param.schema.default
    ELSE val

\* the loop over the declarations: stops at the first throw, leaving in
\* params the entries written so far
RECURSIVE EachParam(_, _, _, _, _)
EachParam(list, params, reqIn, route, match) ==
    IF list = <<>> THEN [threw |-> FALSE, message |-> Undefined, params |-> params]
    ELSE LET param == list[1]
             r == SwitchParamType(param, reqIn, route, match)
             entry == [schema |-> param, value |-> UseDefault(r.val, param)]
         IN  IF r.threw
             THEN [threw |-> TRUE, message |-> r.message, params |-> params]
             ELSE EachParam(Tail(list), (param.name :> entry) @@ params,
                            reqIn, route, match)

\* the three ways the handler returns: what it leaves in req and the calls
\* of next it makes
NoOperationAttached(reqIn, md) ==
    [req |-> [reqIn EXCEPT !.swagger = MetadataRef], next |-> <<NoArgument>>]

NoOperation(reqIn, md) == [req |-> reqIn, next |-> <<NoArgument>>]

Attached(reqIn, md) ==
    [req |-> [reqIn EXCEPT !.swagger = MetadataRef], next |-> <<NoArgument>>]

CaughtAttached(reqIn, md, message) ==
    [req |-> [reqIn EXCEPT !.swagger = MetadataRef], next |-> <<message>>]

CaughtNoReturn(reqIn, md, message) ==
    [req |-> reqIn, next |-> <<message, NoArgument>>]

Caught(reqIn, md, message) == [req |-> reqIn, next |-> <<message>>]

\* swaggerMetadata(req, res, next) run on the route table `table`
Handle(so, table, reqIn) ==
    LET rPath == reqIn.pathname
        found == Find(table, 1, rPath)
        match == found.match
        path == IF found.index = 0 THEN UndefinedObject
                ELSE found.table[found.index].value
        md0 == [path |-> IF path # UndefinedObject THEN path.path ELSE UndefinedObject,
                operation |-> IF path # UndefinedObject
                              THEN GetObject(path.operations, ToLowerCase(reqIn.method))
                              ELSE UndefinedObject,
                params |-> EmptyObject,
                swaggerObject |-> SwaggerObjectRef]
        each == EachParam(Union(md0.path.parameters, md0.operation.parameters),
                          EmptyObject, reqIn, path, match)
        md == [md0 EXCEPT !.params = each.params]
        out == IF md0.operation = UndefinedObject THEN NoOperation(reqIn, md0)
               ELSE IF each.threw THEN Caught(reqIn, md, each.message)
               ELSE Attached(reqIn, md)
    IN  [table |-> found.table,
         metadata |-> IF md0.operation = UndefinedObject THEN md0 ELSE md,
         req |-> out.req,
         next |-> out.next]

-----------------------------------------------------------------------------
(* The API descriptions and the requests of the model *)

TPetsPetId == "/pets/{petId}"
TPetsId == "/pets/{id}"
TPetsMine == "/pets/mine"
TKindId == "/{kind}/{id}"
Templates == {TPetsPetId, TPetsId, TPetsMine, TKindId}

BasePaths == {<<>>, <<"v1">>}

Names == {"id", "petId"}
Ins == {"path", "query", "header", "body", "formData", "cookie", Undefined}
Schemas == {UndefinedObject, [default |-> "dflt"]}

\* a parameter declaration; oid stands for the identity of the object
Declarations ==
    {[oid |-> 0, name |-> n, in |-> i, schema |-> s] : n \in Names, i \in Ins, s \in Schemas}

WithOid(d, o) == [d EXCEPT !.oid = o]

Operation(pathName, method, parameters) ==
    [of |-> pathName, method |-> method, parameters |-> parameters]

PathItem(pathName, parameters, ops) ==
    [pathName |-> pathName, parameters |-> parameters, ops |-> ops]

\* routing descriptions: up to MaxPaths templates, each with at most a
\* path-typed declaration at path level, a get and perhaps a post
PathDeclaration(n) == [oid |-> 1, name |-> n, in |-> "path", schema |-> UndefinedObject]

RoutingItemsOf(t) ==
    {PathItem(t, <<>>, [get |-> Operation(t, "get", <<>>)]),
     PathItem(t, <<>>, [get |-> Operation(t, "get", <<>>),
                        post |-> Operation(t, "post", <<>>)])}
    \cup {PathItem(t, <<PathDeclaration(n)>>, [get |-> Operation(t, "get", <<>>)]) :
              n \in Names}

RoutingItems == UNION {RoutingItemsOf(t) : t \in Templates}

RoutingObjects ==
    {[info |-> "routing", basePath |-> b, paths |-> ps] :
        b \in BasePaths,
        ps \in {s \in UNION {[1..k -> RoutingItems] : k \in 1..MaxPaths} :
                   \A i, j \in 1..Len(s) : i # j => s[i].pathName # s[j].pathName}}

\* parameter descriptions: one route /pets/{id} whose get has up to MaxParams
\* declarations, split between path level and operation level; an
\* operation-level entry is a new object or one of the path-level objects
PathLevelLists(k) ==
    {[i \in 1..k |-> WithOid(f[i], i)] : f \in [1..k -> Declarations]}

OperationLevelLists(pl, m) ==
    {[j \in 1..m |-> IF g[j] \in Range(pl) THEN g[j] ELSE WithOid(g[j], Len(pl) + j)] :
        g \in [1..m -> Declarations \cup Range(pl)]}

ParameterObject(pl, ol) ==
    [info |-> "parameters",
     basePath |-> <<>>,
     paths |-> <<PathItem(TPetsId, pl, [get |-> Operation(TPetsId, "get", ol)])>>]

\* the splits of at most MaxParams declarations between the two levels
Splits == {km \in (0..MaxParams) \X (0..MaxParams) : km[1] + km[2] <= MaxParams}

Request(pathname, method, query, body, headers) ==
    [pathname |-> pathname, method |-> method, query |-> query, body |-> body,
     headers |-> headers, swagger |-> UndefinedObject]

RoutingRequests ==
    {Request(b \o p, m, UndefinedObject, UndefinedObject, [host |-> "h"]) :
        b \in BasePaths,
        p \in {<<"pets", "42">>, <<"pets", "mine">>, <<"42", "mine">>, <<"pets">>},
        m \in {"GET", "Post"}}

ParameterRequests ==
    {Request(<<"pets", "42">>, "GET", q, b, [host |-> "h", id |-> "hv"]) :
        q \in {UndefinedObject, [id |-> "qv"]},
        b \in {UndefinedObject, [id |-> "bv"]}}

Requests(so) == IF so.info = "routing" THEN RoutingRequests ELSE ParameterRequests

-----------------------------------------------------------------------------
(* The middleware as a state machine *)

NoRequest == UndefinedObject

\* the middleware before swaggerMetadataMiddleware is called; the command
\* line is not running
Init ==
    /\ \/ swaggerObject \in RoutingObjects
       \/ \E km \in Splits : \E pl \in PathLevelLists(km[1]) :
             \E ol \in OperationLevelLists(pl, km[2]) :
                swaggerObject = ParameterObject(pl, ol)
    /\ paths = <<>>
    /\ built = FALSE
    /\ req = NoRequest
    /\ metadata = UndefinedObject
    /\ nextCalls = <<>>
    /\ pathsAndOrUrls = <<>>
    /\ fetched = <<>>
    /\ callbacks = <<>>
    /\ mapState = [results |-> <<>>, completed |-> 0, live |-> TRUE]
    /\ process = "running"
    /\ reported = <<>>

\* swaggerMetadataMiddleware(swaggerObject): gathers the paths and returns
\* the handler
swaggerMetadataMiddleware ==
    /\ ~built
    /\ paths' = GatherPaths(swaggerObject, 1, <<>>)
    /\ built' = TRUE
    /\ UNCHANGED <<swaggerObject, req, metadata, nextCalls>>
    /\ UNCHANGED cliVars

\* swaggerMetadata(req, res, next): one request handled from start to end
swaggerMetadata ==
    /\ built
    /\ \E reqIn \in Requests(swaggerObject) :
          \E h \in {Handle(swaggerObject, paths, reqIn)} :
              /\ paths' = h.table
              /\ req' = h.req
              /\ metadata' = h.metadata
              /\ nextCalls' = h.next
    /\ UNCHANGED swaggerObject
    /\ UNCHANGED built
    /\ UNCHANGED cliVars

-----------------------------------------------------------------------------
(* bin/swagger-tools: getDocument and getDocuments *)

NullValue == "null"

\* YAML.safeLoad(content): the document, or the exception thrown
InvalidContent == "{"
safeLoad(content) ==
    CASE content = "swagger: '2.0'" ->
            [threw |-> FALSE, doc |-> [swagger |-> "2.0"]]
      [] content = "swaggerVersion: '1.2'" ->
            [threw |-> FALSE, doc |-> [swaggerVersion |-> "1.2"]]
      [] content = "title: x" ->
            [threw |-> FALSE, doc |-> [title |-> "x"]]
      [] OTHER -> [threw |-> TRUE, doc |-> UndefinedObject]

\* the state the loader works on
World(f, c, m, p, r) ==
    [fetched |-> f, callbacks |-> c, mapState |-> m, process |-> p, reported |-> r]

\* the function getDocuments hands to async.map: an unidentifiable first
\* document ends the process through exitWithError, otherwise the caller's
\* callback is called
Report(w, err) ==
    LET documents == w.mapState.results
        first == IF Len(documents) > 0 THEN documents[1] ELSE UndefinedObject
        unidentifiable == /\ err = NullValue
                          /\ first # UndefinedObject
                          /\ "swagger" \notin DOMAIN first
                          /\ "swaggerVersion" \notin DOMAIN first
    IN  IF unidentifiable
        THEN [w EXCEPT !.process = "exited"]
        ELSE [w EXCEPT !.reported = Append(@, err)]

\* async.map's `done` for one item: the first error reports at once and
\* silences the rest, the last completion reports success
Done(w, err) ==
    IF err # Undefined
    THEN IF w.mapState.live
         THEN Report([w EXCEPT !.mapState.live = FALSE], err)
         ELSE w
    ELSE LET w1 == [w EXCEPT !.mapState.completed = @ + 1]
         IN  IF w1.mapState.completed >= Len(w1.fetched) /\ w1.mapState.live
             THEN Report(w1, NullValue)
             ELSE w1

\* one call of the callback getDocument was given for item i.  A second call
\* for the same item either throws "Callback was already called." (onlyOnce)
\* or runs async.map's bookkeeping again, depending on the async release.
Callback(w, i, err, doc, onlyOnce) ==
    IF w.process # "running" THEN w
    ELSE LET again == Len(w.callbacks[i]) > 0
             w1 == [w EXCEPT !.callbacks[i] = Append(@, [err |-> err, doc |-> doc])]
         IN  IF again /\ onlyOnce THEN [w1 EXCEPT !.process = "crashed"]
             ELSE Done([w1 EXCEPT !.mapState.results[i] = doc], err)

\* parseContent(content)
parseContent(w, i, content, onlyOnce) ==
    LET loaded == safeLoad(content)
    IN  Callback(w, i, IF loaded.threw THEN "YAMLException" ELSE Undefined,
                 loaded.doc, onlyOnce)

\* the callback given to request.get(...).end for item i
HttpEndOf(w, i, arg, onlyOnce) ==
    LET w1 == IF arg.err
              THEN Callback(w, i, "HttpError", UndefinedObject, onlyOnce)
              ELSE w
        w2 == [w1 EXCEPT !.fetched[i] = "done"]
    IN  IF w2.process # "running" THEN w2
        ELSE IF arg.res = Undefined THEN [w2 EXCEPT !.process = "crashed"]
        ELSE parseContent(w2, i, arg.res, onlyOnce)

\* getDocument(pathOrUrl, callback) up to its return
getDocumentOf(w, i, arg) ==
    IF w.process # "running" THEN w
    ELSE IF arg.type # "string"
         THEN Callback([w EXCEPT !.fetched[i] = "done"], i, Undefined,
                       UndefinedObject, TRUE)
    ELSE IF arg.http THEN [w EXCEPT !.fetched[i] = "pending"]
    ELSE IF arg.res = Undefined
         THEN Callback([w EXCEPT !.fetched[i] = "done"], i, "ENOENT",
                       UndefinedObject, TRUE)
         ELSE parseContent([w EXCEPT !.fetched[i] = "done"], i, arg.res, TRUE)

\* async.map(pathsAndOrUrls, getDocument, ...): the iterator is started on
\* every item in order
RECURSIVE MapOver(_, _, _)
MapOver(w, i, args) ==
    IF i > Len(args) THEN w
    ELSE MapOver(getDocumentOf(w, i, args[i]), i + 1, args)

Contents == {"swagger: '2.0'", "swaggerVersion: '1.2'", "title: x", InvalidContent}

\* an argument together with what the network or the file system answers:
\* res is the text received or read (Undefined when there is none)
Arguments ==
    {[type |-> "object", http |-> FALSE, err |-> FALSE, res |-> Undefined]}
    \cup {[type |-> "string", http |-> TRUE, err |-> e, res |-> r] :
             e \in BOOLEAN, r \in Contents}
    \cup {[type |-> "string", http |-> TRUE, err |-> TRUE, res |-> Undefined]}
    \cup {[type |-> "string", http |-> FALSE, err |-> FALSE, res |-> r] :
             r \in Contents \cup {Undefined}}

\* getDocuments is about to be called; the middleware is not in use
InitCli ==
    /\ pathsAndOrUrls \in UNION {[1..n -> Arguments] : n \in 1..MaxDocs}
    /\ fetched = [i \in 1..Len(pathsAndOrUrls) |-> "waiting"]
    /\ callbacks = [i \in 1..Len(pathsAndOrUrls) |-> <<>>]
    /\ mapState = [results |-> [i \in 1..Len(pathsAndOrUrls) |-> UndefinedObject],
                   completed |-> 0, live |-> TRUE]
    /\ process = "running"
    /\ reported = <<>>
    /\ swaggerObject = UndefinedObject
    /\ paths = <<>>
    /\ built = FALSE
    /\ req = NoRequest
    /\ metadata = UndefinedObject
    /\ nextCalls = <<>>

SetWorld(w) ==
    /\ fetched' = w.fetched
    /\ callbacks' = w.callbacks
    /\ mapState' = w.mapState
    /\ process' = w.process
    /\ reported' = w.reported

\* getDocuments(pathsAndOrUrls, callback) up to its return
getDocuments ==
    /\ process = "running"
    /\ \A i \in 1..Len(fetched) : fetched[i] = "waiting"
    /\ Len(fetched) > 0
    /\ SetWorld(MapOver(World(fetched, callbacks, mapState, process, reported),
                        1, pathsAndOrUrls))
    /\ UNCHANGED pathsAndOrUrls
    /\ UNCHANGED mwVars

\* the HTTP client delivers the answer for one pending item
HttpEnd ==
    /\ process = "running"
    /\ \E i \in 1..Len(fetched) : \E onlyOnce \in BOOLEAN :
          /\ fetched[i] = "pending"
          /\ SetWorld(HttpEndOf(World(fetched, callbacks, mapState, process, reported),
                                i, pathsAndOrUrls[i], onlyOnce))
    /\ UNCHANGED pathsAndOrUrls
    /\ UNCHANGED mwVars

Next == swaggerMetadataMiddleware \/ swaggerMetadata

Spec == Init /\ [][Next]_vars

NextCli == getDocuments \/ HttpEnd

SpecCli == InitCli /\ [][NextCli]_vars

-----------------------------------------------------------------------------
(* Vocabulary of the properties, stated on the description and the request *)

Handled == built /\ req # NoRequest
SwaggerAttached == Handled /\ req.swagger # UndefinedObject

\* what a downstream handler reads as req.swagger
ReqSwagger == IF req.swagger = MetadataRef THEN metadata ELSE UndefinedObject

\* basePath followed by the template
FullTemplate(so, pathName) ==
    [i \in 1..Len(so.basePath) |-> Lit(so.basePath[i])] \o TemplateSegments(pathName)

\* rPath is the prefix followed by a concrete instantiation of the template
IsInstance(so, pathName, rPath) ==
    LET full == FullTemplate(so, pathName)
    IN  /\ Len(full) = Len(rPath)
        /\ \A i \in 1..Len(full) : full[i].kind = "brace" \/ full[i].text = rPath[i]

\* the concrete value substituted for the placeholder called name
Substituted(so, pathName, rPath, name) ==
    LET full == FullTemplate(so, pathName)
        at == {i \in 1..Len(full) : full[i].kind = "brace" /\ full[i].text = name}
    IN  IF at = {} THEN Undefined ELSE rPath[CHOOSE i \in at : TRUE]

\* the declared path items, in declaration order, that rPath instantiates
Instantiated(so, rPath) ==
    {i \in 1..Len(so.paths) : IsInstance(so, so.paths[i].pathName, rPath)}

\* the first entry of the route table whose pattern matches (0: none)
FirstRoute(rPath) ==
    LET hits == {i \in 1..Len(paths) : Matches(paths[i].value.re.source, rPath)}
    IN  IF hits = {} THEN 0 ELSE CHOOSE i \in hits : \A j \in hits : i <= j

OperationResolved ==
    /\ FirstRoute(req.pathname) # 0
    /\ ToLowerCase(req.method) \in
          DOMAIN paths[FirstRoute(req.pathname)].value.path.ops

\* the declaration set of the resolved operation
DeclarationSet ==
    LET item == paths[FirstRoute(req.pathname)].value.path
    IN  Range(item.parameters) \cup Range(item.ops[ToLowerCase(req.method)].parameters)

NeedsBody(d) == d.in \in {"body", "formData"}
KnownIns == {"path", "query", "header", "body", "formData"}

HasDefault(d) == d.schema # UndefinedObject /\ d.schema.default # Undefined

\* the value the request holds at the location a declaration names
AtLocation(d) ==
    CASE d.in = "path" ->
            Substituted(swaggerObject, ReqSwagger.path.pathName, req.pathname, d.name)
      [] d.in = "header" -> Get(req.headers, d.name)
      [] NeedsBody(d) -> Get(req.body, d.name)
      [] d.in \in {"query", Undefined} -> Get(req.query, d.name)
      [] OTHER -> Undefined

\* the value resolution gives a declaration: what the request holds at its
\* location, or the default when that is undefined
Resolved(d) ==
    IF AtLocation(d) = Undefined /\ HasDefault(d) THEN d.schema.default ELSE AtLocation(d)

IsError(calls) == calls \in {<<BodyRequired>>, <<QueryRequired>>}

-----------------------------------------------------------------------------
(* Properties *)

\* C1: when several declared templates match the request path, the request
\* resolves to the first declared one: metadata.path is its path item and
\* the operation is taken from it.
C1_FirstMatchWins ==
    Handled =>
        LET hits == Instantiated(swaggerObject, req.pathname)
            first == CHOOSE i \in hits : \A j \in hits : i <= j
            A == swaggerObject.paths[first]
        IN  Cardinality(hits) >= 2 =>
                /\ metadata.path = A
                /\ metadata.operation = PathItemGet(A, ToLowerCase(req.method))

\* C2: when the path item and the operation both declare a parameter named
\* n, as different objects, params[n] carries a path-level declaration as
\* its schema and the value found at that declaration's location.
C2_PathLevelWins ==
    SwaggerAttached =>
        \A n \in DOMAIN ReqSwagger.params :
            LET pathLevel == Range(ReqSwagger.path.parameters)
                opLevel == Range(ReqSwagger.operation.parameters) \ pathLevel
                entry == ReqSwagger.params[n]
            IN  (/\ \E d \in pathLevel : d.name = n
                 /\ \E e \in opLevel : e.name = n)
                => /\ entry.schema \in pathLevel
                   /\ entry.value = Resolved(entry.schema)

\* C3: when the resolved operation's declaration set holds a body or
\* formData declaration and the request has no parsed body, or a query
\* declaration and the request has no parsed query, next receives the error
\* message and req.swagger is not attached, so that no params entry reaches
\* the downstream handlers.
C3_MissingSourceData ==
    (Handled /\ OperationResolved) =>
        ((\E d \in DeclarationSet :
              \/ NeedsBody(d) /\ req.body = UndefinedObject
              \/ d.in = "query" /\ req.query = UndefinedObject)
         => /\ IsError(nextCalls)
            /\ req.swagger = UndefinedObject)

\* C3, the case reached: a declaration was processed before the failing one
C3_Witness ==
    /\ Handled
    /\ OperationResolved
    /\ nextCalls = <<BodyRequired>>
    /\ metadata.params # EmptyObject
    /\ req.swagger = UndefinedObject

\* C4 as claimed: when no operation is resolved, next is called without an
\* error and a metadata record with operation undefined, params empty and
\* the matched route's path item is handed downstream.
C4_RecordHandedDownstream ==
    (Handled /\ ~OperationResolved) =>
        /\ nextCalls = <<NoArgument>>
        /\ ReqSwagger # UndefinedObject
        /\ ReqSwagger.operation = UndefinedObject
        /\ ReqSwagger.params = EmptyObject
        /\ ReqSwagger.path =
              IF FirstRoute(req.pathname) = 0 THEN UndefinedObject
              ELSE paths[FirstRoute(req.pathname)].value.path

\* C4 amended: when no operation is resolved, next is called once without
\* an error and req.swagger is not attached; the record the handler built
\* has operation undefined, params empty and the matched route's path item
\* (undefined when no route matched).
C4_NoMetadataAttached ==
    (Handled /\ ~OperationResolved) =>
        /\ nextCalls = <<NoArgument>>
        /\ req.swagger = UndefinedObject
        /\ metadata.operation = UndefinedObject
        /\ metadata.params = EmptyObject
        /\ metadata.path =
              IF FirstRoute(req.pathname) = 0 THEN UndefinedObject
              ELSE paths[FirstRoute(req.pathname)].value.path

\* C4, the case reached: a route matches and the method has no operation
C4_Witness ==
    /\ Handled
    /\ FirstRoute(req.pathname) # 0
    /\ ~OperationResolved
    /\ metadata.path # UndefinedObject
    /\ nextCalls = <<NoArgument>>

\* the value query semantics give a declaration: request.query[name], or the
\* default when that is undefined
QueryValue(d) ==
    IF Get(req.query, d.name) = Undefined /\ HasDefault(d)
    THEN d.schema.default
    ELSE Get(req.query, d.name)

C6_ValueDefaulting ==
    SwaggerAttached =>
        \A n \in DOMAIN ReqSwagger.params :
            LET entry == ReqSwagger.params[n]
                d == entry.schema
            IN  /\ (HasDefault(d) /\ AtLocation(d) = Undefined) =>
                       entry.value = d.schema.default
                /\ AtLocation(d) # Undefined => entry.value = AtLocation(d)

\* C6, the case reached: one declaration took its default while another,
\* also carrying a default, kept the value the request holds
C6_Witness ==
    /\ SwaggerAttached
    /\ \E n, m \in DOMAIN ReqSwagger.params :
          /\ HasDefault(ReqSwagger.params[n].schema)
          /\ AtLocation(ReqSwagger.params[n].schema) = Undefined
          /\ ReqSwagger.params[n].value = "dflt"
          /\ HasDefault(ReqSwagger.params[m].schema)
          /\ ReqSwagger.params[m].value \in {"qv", "bv", "hv", "42"}

\* the request paths of the model
Pathnames == {r.pathname : r \in RoutingRequests \cup ParameterRequests}

\* every route of the table matches every instantiation of its template
RoutesMatchInstances ==
    built =>
        \A i \in 1..Len(paths) : \A rPath \in Pathnames :
            IsInstance(swaggerObject, paths[i].value.path.pathName, rPath)
            => ReExec(paths[i].value.re, rPath).match # Null

C8_Isolation ==
    built =>
        LET fresh == GatherPaths(swaggerObject, 1, <<>>)
        IN  /\ paths = fresh
            /\ Handled =>
                  LET h == Handle(swaggerObject, fresh,
                                  [req EXCEPT !.swagger = UndefinedObject])
                  IN  /\ req = h.req
                      /\ metadata = h.metadata
                      /\ nextCalls = h.next

\* C8, the case reached: a request that fails was handled and the table is
\* the one built from the description
C8_Witness ==
    /\ Handled
    /\ IsError(nextCalls)
    /\ Len(paths) = 1
    /\ paths = GatherPaths(swaggerObject, 1, <<>>)

\* does resolving the declaration set throw
ResolutionThrows ==
    \E d \in DeclarationSet :
        \/ NeedsBody(d) /\ req.body = UndefinedObject
        \/ d.in \in {"query", Undefined} /\ req.query = UndefinedObject

\* C9: next is called exactly once per request: with the error message and
\* without req.swagger when resolution threw, with no argument otherwise;
\* req.swagger is attached exactly when an operation was resolved and its
\* declarations were all resolved without error.
C9_NextOnce ==
    Handled =>
        /\ Len(nextCalls) = 1
        /\ IF OperationResolved /\ ResolutionThrows
           THEN IsError(nextCalls) /\ req.swagger = UndefinedObject
           ELSE /\ nextCalls[1] = NoArgument
                /\ req.swagger # UndefinedObject <=> OperationResolved

\* C9, the case reached: resolution threw and next got the message
C9_Witness ==
    /\ Handled
    /\ OperationResolved
    /\ ResolutionThrows
    /\ nextCalls = <<QueryRequired>>

\* C10: getDocument has called its callback exactly once for every argument
\* it is done with: with no arguments for a non-string, with the error when
\* the fetch or the read failed.
C10_CallbackOnce ==
    \A i \in 1..Len(pathsAndOrUrls) :
        fetched[i] = "done" =>
            /\ Len(callbacks[i]) = 1
            /\ pathsAndOrUrls[i].type # "string" => callbacks[i][1].err = Undefined
            /\ (pathsAndOrUrls[i].http /\ pathsAndOrUrls[i].err) =>
                   callbacks[i][1].err = "HttpError"
====
